---- MODULE Spec2Model ----
(***************************************************************************)
(* Model of src/app.py, the Compound v3 fixed-rate swap backtester: one    *)
(* top-to-bottom run of the script, from the APR fetch to the summary.     *)
(*                                                                         *)
(* Numbers.  The script computes in IEEE doubles.  Here every rate and     *)
(* factor is a fixed-point integer with ONE = 1.0 (resolution 1e-6), every *)
(* USD amount an integer number of 1/1000 USD, and a product is rounded    *)
(* down to the resolution (MulFix).  The daily conversion                  *)
(* (1 + r) ** (1/365) - 1 is computed as the 365th root, by bisection over *)
(* the fixed-point power.                                                  *)
(***************************************************************************)
EXTENDS Integers, Sequences, FiniteSets, TLC

VARIABLES
    pc,                 \* position of the run in the script
    error,              \* the st.error message shown, lines 59, 79, 83, 88
    lookback_days,      \* sidebar slider, line 54
    raw,                \* data["data"]["dailyMarketAccountings"], line 86
    unit_scale,         \* ghost: 1 when the source delivers fractions, 100 when percent
    df,                 \* the APR history frame, lines 91-100
    mean_b,             \* line 114
    fixed_rate_annual,  \* line 131
    fixed_rate_per_day, \* line 140
    borrow_cf,          \* lines 169 / 179
    liq_cf,             \* lines 170 / 180
    collateral_usd,     \* line 192
    max_borrow_usd,     \* line 193
    borrow_usd,         \* line 197
    sim_days,           \* line 205
    hist,               \* lines 206-210
    pos,                \* number of hist rows the loop has consumed
    outstanding,        \* line 215 / 229
    cum_net,            \* line 217 / 226
    rows,               \* the ledger, line 216 / 236
    ltv_now,            \* line 262
    any_liq             \* line 263

vars == <<pc, error, lookback_days, raw, unit_scale, df, mean_b, fixed_rate_annual,
          fixed_rate_per_day, borrow_cf, liq_cf, collateral_usd, max_borrow_usd,
          borrow_usd, sim_days, hist, pos, outstanding, cum_net, rows, ltv_now,
          any_liq>>

(***************************************************************************)
(* Program constants.                                                      *)
(***************************************************************************)
MinLookback == 90
DefaultLookback == 365
MinSimDays == 30
MaxSimDays == 365
DaysPerYear == 365
SecondsPerDay == 24 * 3600

(***************************************************************************)
(* Bounds of the explored inputs.                                          *)
(***************************************************************************)
\* rows of history beyond a window (the sim window, the lookback window)
Extra == 1
\* rows by which a short history falls short of the smallest horizon
Shortfall == 10
\* length of the final run of the series that carries its second rate
TailRun == 12

(***************************************************************************)
(* Fixed-point arithmetic.                                                 *)
(***************************************************************************)
ONE == 1000 * 1000

\* a * b / ONE rounded down; the factors are split in base 1000 so that no
\* intermediate product leaves the 32-bit range.
MulFix(a, b) ==
    LET ah == a \div 1000
        al == a % 1000
        bh == b \div 1000
        bl == b % 1000
    IN  ah * bh + ((ah * bl + al * bh + ((al * bl) \div 1000)) \div 1000)

RECURSIVE PowFix(_, _)
PowFix(b, n) ==
    IF n = 0 THEN ONE
    ELSE LET h == PowFix(b, n \div 2)
             sq == MulFix(h, h)
         IN  IF n % 2 = 1 THEN MulFix(sq, b) ELSE sq

\* the largest d in [lo, hi) with (1 + d) ** n <= target
RECURSIVE Root(_, _, _, _)
Root(target, n, lo, hi) ==
    IF hi - lo <= 1 THEN lo
    ELSE LET mid == (lo + hi) \div 2
         IN  IF PowFix(ONE + mid, n) <= target
             THEN Root(target, n, mid, hi)
             ELSE Root(target, n, lo, mid)

(***************************************************************************)
(* Inputs.                                                                 *)
(***************************************************************************)
\* annual borrow APRs of the market, as fractions: -0.5%, 0, 5%
FractionRates == {-5000, 0, 50000}
\* the source delivers fractions or percentages
UnitScales == {1, 100}
Orders == {"asc", "desc"}
RawLengths == {0, MinSimDays - Shortfall, MinSimDays + Extra, MinLookback + Extra}
LookbackChoices == {MinLookback, DefaultLookback}
SimDaysChoices == {MinSimDays, MinSimDays + Extra}
FixedRateChoices == {0, 60000}
BorrowCfChoices == {750000}
LiqCfChoices == {740000, 750000, 850000}
\* <<ETH amount, ETH price>>: 1 ETH at 2000 USD, no ETH, a price of zero
PositionChoices == {<<ONE, 2000 * 1000>>, <<0, 2000 * 1000>>, <<ONE, 0>>}

\* every annual rate the run can meet
AnnualRates ==
    {r * s : r \in FractionRates, s \in UnitScales}
        \cup {(r \div 2) * s : r \in FractionRates, s \in UnitScales}
        \cup FixedRateChoices

\* (1 + r) ** (1/365) - 1, lines 140, 209, 210
AnnualToDaily(r) == Root(ONE + r, DaysPerYear, -8192, 8192)

DailyTable == [r \in AnnualRates |-> AnnualToDaily(r)]

DailyRate(r) == DailyTable[r]

(***************************************************************************)
(* The response of the rate source (lines 66-86).                          *)
(***************************************************************************)
\* The fraction rate of day j of a series of len days: rate a, then rate b on
\* its last TailRun days.
SeriesRate(len, a, b, j) == IF j <= len - TailRun THEN a ELSE b

\* The rows the source returns for days 1..len, in the order it chose.
RawSeries(len, a, b, scale, order) ==
    [i \in 1..len |->
        LET j == IF order = "desc" THEN len + 1 - i ELSE i
        IN  [timestamp  |-> j * SecondsPerDay,
             borrowApr  |-> SeriesRate(len, a, b, j) * scale,
             supplyApr  |-> (SeriesRate(len, a, b, j) \div 2) * scale]]

(***************************************************************************)
(* The APR history frame (lines 91-100).                                   *)
(***************************************************************************)
\* lines 91-96: one frame row per returned row
FrameRow(x) ==
    [timestamp        |-> x.timestamp,
     borrowApr_annual |-> x.borrowApr,
     supplyApr_annual |-> x.supplyApr,
     date             |-> x.timestamp \div SecondsPerDay]

RECURSIVE Merge(_, _)
Merge(s, t) ==
    IF s = <<>> THEN t
    ELSE IF t = <<>> THEN s
    ELSE IF Head(s).timestamp <= Head(t).timestamp
         THEN <<Head(s)>> \o Merge(Tail(s), t)
         ELSE <<Head(t)>> \o Merge(s, Tail(t))

\* line 97: df.sort_values("date")
RECURSIVE SortByDate(_)
SortByDate(s) ==
    IF Len(s) <= 1 THEN s
    ELSE LET h == Len(s) \div 2
         IN  Merge(SortByDate(SubSeq(s, 1, h)), SortByDate(SubSeq(s, h + 1, Len(s))))

\* DataFrame.tail(n)
TailN(s, n) == IF Len(s) <= n THEN s ELSE SubSeq(s, Len(s) - n + 1, Len(s))

\* lines 91-100
BuildFrame(r, lookback) ==
    TailN(SortByDate([i \in 1..Len(r) |-> FrameRow(r[i])]), lookback)

RECURSIVE SumBorrow(_)
SumBorrow(s) == IF s = <<>> THEN 0 ELSE Head(s).borrowApr_annual + SumBorrow(Tail(s))

\* the mean of an empty column
NaN == "nan"

\* line 114: df["borrowApr_annual"].mean()
Mean(s) == IF s = <<>> THEN NaN ELSE SumBorrow(s) \div Len(s)

(***************************************************************************)
(* Position sizing (lines 189-193).                                        *)
(***************************************************************************)
\* line 192
CollateralUsd(eth, price) == MulFix(price, eth)

\* line 193
MaxBorrowUsd(collateral, cf) == MulFix(collateral, cf)

Min(a, b) == IF a <= b THEN a ELSE b

(***************************************************************************)
(* The simulation (lines 205-267).                                         *)
(***************************************************************************)
\* lines 206-210: the last sim_days rows, with their daily rates
BuildHist(frame, days) ==
    LET t == TailN(frame, days)
    IN  [i \in 1..Len(t) |->
            [date              |-> t[i].date,
             borrowApr_annual  |-> t[i].borrowApr_annual,
             borrow_rate_daily |-> DailyRate(t[i].borrowApr_annual),
             supply_rate_daily |-> DailyRate(t[i].supplyApr_annual)]]

\* a fixed leg that tracks the compounding balance
FixedPayOnBalance(borrow, out, fixed_daily) == MulFix(out, fixed_daily)

\* line 222; out is the current balance, which the fixed leg does not read
FixedPay(borrow, out, fixed_daily) == MulFix(borrow, fixed_daily)

\* interest taken on the balance after the day's compounding
FloatPayAfterCompounding(out, rf) == MulFix(MulFix(out, ONE + rf), rf)

\* line 223
FloatPay(out, rf) == MulFix(out, rf)

\* the interest taken off the debt
CompoundMinus(out, rf) == MulFix(out, ONE - rf)

\* line 229
Compound(out, rf) == MulFix(out, ONE + rf)

\* line 233
HealthyLimit(cf, collateral) == MulFix(collateral, cf)

\* a breach already at the threshold
LiquidatedAtThreshold(out, limit) == out >= limit

\* line 234
Liquidated(out, limit) == out > limit

\* an undefined ratio recorded as zero
LtvZeroDefault(out, collateral) ==
    IF collateral > 0
    THEN [inf |-> FALSE, val |-> (out * 1000) \div (collateral \div 1000)]
    ELSE [inf |-> FALSE, val |-> 0]

\* line 247; a ratio is a fixed-point number, math.inf is the record with inf set
Ltv(out, collateral) ==
    IF collateral > 0
    THEN [inf |-> FALSE, val |-> (out * 1000) \div (collateral \div 1000)]
    ELSE [inf |-> TRUE, val |-> 0]

\* all() in the place of any()
AllBreach(ledger) == \A k \in 1..Len(ledger) : ledger[k].breach_liquidation

\* line 263: sim["breach_liquidation"].any()
AnyBreach(ledger) == \E k \in 1..Len(ledger) : ledger[k].breach_liquidation

(***************************************************************************)
(* The run.                                                                *)
(***************************************************************************)
NoLtv == [inf |-> FALSE, val |-> 0]

Init ==
    /\ pc = "start"
    /\ error = "none"
    /\ lookback_days \in LookbackChoices
    /\ raw = <<>>
    /\ unit_scale = 1
    /\ df = <<>>
    /\ mean_b = 0
    /\ fixed_rate_annual = 0
    /\ fixed_rate_per_day = 0
    /\ borrow_cf = 0
    /\ liq_cf = 0
    /\ collateral_usd = 0
    /\ max_borrow_usd = 0
    /\ borrow_usd = 0
    /\ sim_days = 0
    /\ hist = <<>>
    /\ pos = 0
    /\ outstanding = 0
    /\ cum_net = 0
    /\ rows = <<>>
    /\ ltv_now = NoLtv
    /\ any_liq = FALSE

\* lines 58-60: no API key
MissingApiKey ==
    /\ pc = "start"
    /\ error' = "no_api_key"
    /\ pc' = "stopped"
    /\ UNCHANGED <<lookback_days, raw, unit_scale, df, mean_b, fixed_rate_annual,
                   fixed_rate_per_day, borrow_cf, liq_cf, collateral_usd,
                   max_borrow_usd, borrow_usd, sim_days, hist, pos, outstanding,
                   cum_net, rows, ltv_now, any_liq>>

\* lines 77-80: the request is answered with a status other than 200
HttpError ==
    /\ pc = "start"
    /\ error' = "graphql_error"
    /\ pc' = "stopped"
    /\ UNCHANGED <<lookback_days, raw, unit_scale, df, mean_b, fixed_rate_annual,
                   fixed_rate_per_day, borrow_cf, liq_cf, collateral_usd,
                   max_borrow_usd, borrow_usd, sim_days, hist, pos, outstanding,
                   cum_net, rows, ltv_now, any_liq>>

\* lines 81-84: the response has no data field
NoDataField ==
    /\ pc = "start"
    /\ error' = "no_data"
    /\ pc' = "stopped"
    /\ UNCHANGED <<lookback_days, raw, unit_scale, df, mean_b, fixed_rate_annual,
                   fixed_rate_per_day, borrow_cf, liq_cf, collateral_usd,
                   max_borrow_usd, borrow_usd, sim_days, hist, pos, outstanding,
                   cum_net, rows, ltv_now, any_liq>>

\* a guard that lets the empty list through
EmptySeriesMissed(r) == Len(r) < 0

\* line 87
EmptySeries(r) == Len(r) = 0

\* lines 86-100: the response holds a list of rows; an empty list stops the
\* run, any other becomes the frame
Fetch ==
    /\ pc = "start"
    /\ \E len \in RawLengths, a \in FractionRates, b \in FractionRates,
          scale \in UnitScales, order \in Orders :
          /\ raw' = RawSeries(len, a, b, scale, order)
          /\ unit_scale' = scale
    /\ IF EmptySeries(raw')
       THEN /\ error' = "no_rows"
            /\ pc' = "stopped"
            /\ df' = df
       ELSE /\ error' = error
            /\ pc' = "stats"
            /\ df' = BuildFrame(raw', lookback_days)
    /\ UNCHANGED <<lookback_days, mean_b, fixed_rate_annual, fixed_rate_per_day,
                   borrow_cf, liq_cf, collateral_usd, max_borrow_usd, borrow_usd,
                   sim_days, hist, pos, outstanding, cum_net, rows, ltv_now,
                   any_liq>>

\* lines 114-130
Statistics ==
    /\ pc = "stats"
    /\ mean_b' = Mean(df)
    /\ pc' = "fixed"
    /\ UNCHANGED <<error, lookback_days, raw, unit_scale, df, fixed_rate_annual,
                   fixed_rate_per_day, borrow_cf, liq_cf, collateral_usd,
                   max_borrow_usd, borrow_usd, sim_days, hist, pos, outstanding,
                   cum_net, rows, ltv_now, any_liq>>

\* lines 131-140: the user's fixed annual rate, in [0, 1], and its daily rate
ChooseFixedRate ==
    /\ pc = "fixed"
    /\ \E f \in FixedRateChoices :
          /\ 0 <= f /\ f <= ONE
          /\ fixed_rate_annual' = f
          /\ fixed_rate_per_day' = DailyRate(f)
    /\ pc' = "sizing"
    /\ UNCHANGED <<error, lookback_days, raw, unit_scale, df, mean_b, borrow_cf,
                   liq_cf, collateral_usd, max_borrow_usd, borrow_usd, sim_days,
                   hist, pos, outstanding, cum_net, rows, ltv_now, any_liq>>

\* lines 153-193: the collateral factors (from the contract or typed in), the
\* collateral and its price
Sizing ==
    /\ pc = "sizing"
    /\ \E bcf \in BorrowCfChoices, lcf \in LiqCfChoices, p \in PositionChoices :
          /\ borrow_cf' = bcf
          /\ liq_cf' = lcf
          /\ collateral_usd' = CollateralUsd(p[1], p[2])
          /\ max_borrow_usd' = MaxBorrowUsd(collateral_usd', bcf)
    /\ pc' = "borrow"
    /\ UNCHANGED <<error, lookback_days, raw, unit_scale, df, mean_b,
                   fixed_rate_annual, fixed_rate_per_day, borrow_usd, sim_days,
                   hist, pos, outstanding, cum_net, rows, ltv_now, any_liq>>

\* line 197: the borrow amount, in [0, max_borrow_usd]; the default is 90% of the cap
ChooseBorrow ==
    /\ pc = "borrow"
    /\ \E amt \in {max_borrow_usd, MulFix(max_borrow_usd, 900000)} :
          /\ 0 <= amt /\ amt <= max_borrow_usd
          /\ borrow_usd' = amt
    /\ pc' = "horizon"
    /\ UNCHANGED <<error, lookback_days, raw, unit_scale, df, mean_b,
                   fixed_rate_annual, fixed_rate_per_day, borrow_cf, liq_cf,
                   collateral_usd, max_borrow_usd, sim_days, hist, pos,
                   outstanding, cum_net, rows, ltv_now, any_liq>>

\* lines 205-217: the horizon, the history window and the loop's initial state
ChooseHorizon ==
    /\ pc = "horizon"
    /\ \E n \in SimDaysChoices :
          /\ MinSimDays <= n /\ n <= Min(lookback_days, MaxSimDays)
          /\ sim_days' = n
          /\ hist' = BuildHist(df, n)
    /\ outstanding' = borrow_usd
    /\ rows' = <<>>
    /\ cum_net' = 0
    /\ pos' = 0
    /\ pc' = "loop"
    /\ UNCHANGED <<error, lookback_days, raw, unit_scale, df, mean_b,
                   fixed_rate_annual, fixed_rate_per_day, borrow_cf, liq_cf,
                   collateral_usd, max_borrow_usd, borrow_usd, ltv_now, any_liq>>

\* lines 219-249: one iteration of the loop over hist
SimDay ==
    /\ pc = "loop"
    /\ pos < Len(hist)
    /\ LET row == hist[pos + 1]
           rf == row.borrow_rate_daily
           fixed_pay == FixedPay(borrow_usd, outstanding, fixed_rate_per_day)
           float_pay == FloatPay(outstanding, rf)
           net == fixed_pay - float_pay
           healthy_limit == HealthyLimit(liq_cf, collateral_usd)
       IN  /\ cum_net' = cum_net + net
           /\ outstanding' = Compound(outstanding, rf)
           /\ rows' = Append(rows,
                [date               |-> row.date,
                 borrow_apr_annual  |-> row.borrowApr_annual,
                 float_rate_daily   |-> rf,
                 fixed_rate_daily   |-> fixed_rate_per_day,
                 float_interest     |-> float_pay,
                 fixed_payment      |-> fixed_pay,
                 net_cashflow       |-> net,
                 cum_net_cashflow   |-> cum_net',
                 outstanding_debt   |-> outstanding',
                 liq_threshold      |-> healthy_limit,
                 ltv                |-> Ltv(outstanding', collateral_usd),
                 breach_liquidation |-> Liquidated(outstanding', healthy_limit)])
    /\ pos' = pos + 1
    /\ UNCHANGED <<pc, error, lookback_days, raw, unit_scale, df, mean_b,
                   fixed_rate_annual, fixed_rate_per_day, borrow_cf, liq_cf,
                   collateral_usd, max_borrow_usd, borrow_usd, sim_days, hist,
                   ltv_now, any_liq>>

\* lines 251-267: the loop is over; the summary
Summary ==
    /\ pc = "loop"
    /\ pos = Len(hist)
    /\ ltv_now' = rows[Len(rows)].ltv
    /\ any_liq' = AnyBreach(rows)
    /\ pc' = "done"
    /\ UNCHANGED <<error, lookback_days, raw, unit_scale, df, mean_b,
                   fixed_rate_annual, fixed_rate_per_day, borrow_cf, liq_cf,
                   collateral_usd, max_borrow_usd, borrow_usd, sim_days, hist,
                   pos, outstanding, cum_net, rows>>

Next ==
    \/ MissingApiKey
    \/ HttpError
    \/ NoDataField
    \/ Fetch
    \/ Statistics
    \/ ChooseFixedRate
    \/ Sizing
    \/ ChooseBorrow
    \/ ChooseHorizon
    \/ SimDay
    \/ Summary

Spec == Init /\ [][Next]_vars

(***************************************************************************)
(* Properties.                                                             *)
(***************************************************************************)
Started == pc \notin {"start", "stopped"}

\* the liquidation threshold of the run, liq_cf * collateral_usd
Threshold == MulFix(collateral_usd, liq_cf)

\* every floating daily rate of the run is non-negative
HistNonNegative == \A k \in 1..Len(hist) : hist[k].borrow_rate_daily >= 0

\* C1: when the run is over the ledger holds exactly sim_days rows, also when
\* the fetched history is shorter than sim_days.
C1_LedgerHasSimDaysRows == pc = "done" => Len(rows) = sim_days

\* C2: when the liquidation threshold is below the initial borrow amount, the
\* first ledger row is flagged as a breach and the run still records all
\* sim_days rows.
C2_ImmediateBreach ==
    Threshold < borrow_usd =>
        /\ Len(rows) >= 1 => rows[1].breach_liquidation
        /\ pc = "done" => Len(rows) = sim_days

\* C3: in a run whose floating daily rates are all non-negative, the recorded
\* outstanding_debt never decreases from one ledger row to the next, and the
\* first row's is at least the borrow amount.
C3_DebtNonDecreasing ==
    HistNonNegative =>
        /\ Len(rows) >= 1 => rows[1].outstanding_debt >= borrow_usd
        /\ \A k \in 1..(Len(rows) - 1) :
              rows[k + 1].outstanding_debt >= rows[k].outstanding_debt

\* C3 witness: a run of non-negative rates in which the debt has grown from
\* one row to the next.
C3_Witness ==
    /\ HistNonNegative
    /\ Len(rows) >= 2
    /\ rows[1].outstanding_debt > borrow_usd
    /\ rows[Len(rows)].outstanding_debt > rows[1].outstanding_debt

\* C4: in every ledger row fixed_payment is borrow_usd * fixed_daily, the same
\* value in every row, whatever the outstanding debt and the floating rate.
C4_FlatNotional ==
    \A k \in 1..Len(rows) :
        /\ rows[k].fixed_payment = MulFix(borrow_usd, DailyRate(fixed_rate_annual))
        /\ rows[k].fixed_payment = rows[1].fixed_payment

\* C4 witness: a fixed payment is recorded after the debt has drifted away
\* from the borrow amount and the floating rate has changed.
C4_Witness ==
    /\ Len(rows) >= 2
    /\ rows[Len(rows)].fixed_payment > 0
    /\ rows[Len(rows) - 1].outstanding_debt # borrow_usd
    /\ rows[Len(rows)].float_rate_daily # rows[1].float_rate_daily

\* C5: when the source returns no observations, or no data field, the run
\* reports an error and stops: no statistic, no fixed rate, no history window
\* and no ledger row is ever computed.
C5_EmptySeriesIsFatal ==
    (pc # "start" /\ Len(raw) = 0) =>
        /\ pc = "stopped"
        /\ error # "none"
        /\ df = <<>>
        /\ hist = <<>>
        /\ rows = <<>>
        /\ sim_days = 0

\* C5 witness: the source returned an empty list and the run has stopped.
C5_Witness == pc = "stopped" /\ error = "no_rows"

\* C6: with a collateral value of zero (no collateral, or a price of zero) the
\* borrow cap and the borrow amount are zero, every ledger row carries the
\* infinite ltv, and so does the summary.
C6_ZeroCollateral ==
    (collateral_usd = 0 /\ pc \in {"borrow", "horizon", "loop", "done"}) =>
        /\ max_borrow_usd = 0
        /\ borrow_usd = 0
        /\ \A k \in 1..Len(rows) : rows[k].ltv.inf
        /\ pc = "done" => ltv_now.inf

\* C6 witness: a run with no collateral value has run to its end, with a
\* ledger row per day of its window.
C6_Witness ==
    /\ pc = "done"
    /\ collateral_usd = 0
    /\ Len(rows) = sim_days
    /\ rows[1].ltv.inf
    /\ ltv_now.inf

\* the series the source would have delivered in fractions
Unscaled(r, scale) ==
    [i \in 1..Len(r) |->
        [r[i] EXCEPT !.borrowApr = @ \div scale, !.supplyApr = @ \div scale]]

FrameRates(frame) ==
    [i \in 1..Len(frame) |-> <<frame[i].borrowApr_annual, frame[i].supplyApr_annual>>]

\* C7: a series delivered in percent (its borrow mean above 1.0, the mean of
\* its fractions below 1.0) yields the same frame rates as the same series
\* delivered in fractions.
C7_PercentDetection ==
    (/\ Started
     /\ Mean(BuildFrame(Unscaled(raw, unit_scale), Len(raw))) < ONE
     /\ Mean(BuildFrame(raw, Len(raw))) > ONE) =>
        FrameRates(df) = FrameRates(BuildFrame(Unscaled(raw, unit_scale), lookback_days))

\* C8: a ledger row is flagged as a breach exactly when its outstanding_debt,
\* the debt after that day's compounding, is strictly above
\* liq_cf * collateral_usd, and every row records that threshold.
C8_BreachIsThresholdForm ==
    \A k \in 1..Len(rows) :
        /\ rows[k].liq_threshold = Threshold
        /\ rows[k].breach_liquidation <=> rows[k].outstanding_debt > Threshold

\* C8 witness: one row's debt equals the threshold and is not flagged, a later
\* row's debt is above it and is flagged.
C8_Witness ==
    /\ Len(rows) >= 2
    /\ rows[1].outstanding_debt = Threshold
    /\ ~rows[1].breach_liquidation
    /\ rows[Len(rows)].outstanding_debt > Threshold
    /\ rows[Len(rows)].breach_liquidation

\* the balance that day k starts from
DebtBefore(k) == IF k = 1 THEN borrow_usd ELSE rows[k - 1].outstanding_debt

\* C9: in every ledger row the interest is accrued on the balance the day
\* started from, the debt is that balance plus the interest, cum_net_cashflow
\* is the running sum of net_cashflow = fixed_payment - float_interest, and
\* outstanding_debt - borrow_usd = k * fixed_payment - cum_net_cashflow.
C9_LedgerConservation ==
    \A k \in 1..Len(rows) :
        /\ rows[k].float_interest = MulFix(DebtBefore(k), rows[k].float_rate_daily)
        /\ rows[k].outstanding_debt = DebtBefore(k) + rows[k].float_interest
        /\ rows[k].net_cashflow = rows[k].fixed_payment - rows[k].float_interest
        /\ rows[k].cum_net_cashflow =
              (IF k = 1 THEN 0 ELSE rows[k - 1].cum_net_cashflow) + rows[k].net_cashflow
        /\ rows[k].outstanding_debt - borrow_usd =
              k * rows[k].fixed_payment - rows[k].cum_net_cashflow

\* C9 witness: several days of non-zero interest and non-zero net cashflow,
\* on a balance that has moved.
C9_Witness ==
    /\ Len(rows) >= 3
    /\ rows[Len(rows)].float_interest # 0
    /\ rows[Len(rows)].net_cashflow # 0
    /\ rows[Len(rows)].float_interest # rows[1].float_interest
    /\ rows[Len(rows) - 1].outstanding_debt # borrow_usd

\* C10: in a run whose floating daily rates are all non-negative, a flagged
\* row is followed by flagged rows only, and the summary's breach flag is the
\* last row's.
C10_BreachPersists ==
    HistNonNegative =>
        /\ \A j \in 1..Len(rows) : \A k \in j..Len(rows) :
              rows[j].breach_liquidation => rows[k].breach_liquidation
        /\ pc = "done" => any_liq = rows[Len(rows)].breach_liquidation

\* C10 witness: a finished run of non-negative rates whose ledger starts
\* unflagged and ends flagged.
C10_Witness ==
    /\ pc = "done"
    /\ HistNonNegative
    /\ ~rows[1].breach_liquidation
    /\ rows[Len(rows)].breach_liquidation
    /\ any_liq

====
